---- MODULE Spec2Model ----
(***************************************************************************)
(* jug/hooks/exit_checks.py: exit conditions subscribed to the task        *)
(* lifecycle events of the jug execution loop.                             *)
(*                                                                         *)
(* Strings (paths, environment values) are sequences of one-character      *)
(* strings, so that int() is computed digit by digit.  The hook registry   *)
(* (jug.hooks) and the execution loop are not part of this file; they are  *)
(* modelled as a list of (event, callback) pairs invoked in registration   *)
(* order around each task.                                                 *)
(***************************************************************************)
EXTENDS Integers, Sequences, FiniteSets, TLC

VARIABLES
    hooks,          \* the registry: sequence of [event, cb], cb a closure
    registrations,  \* history: the factory call that produced hooks[i]
    delivered,      \* history: number of times hooks[i] has been invoked
    now,            \* time(): seconds on the wall clock
    files,          \* the paths that currently exist
    pc,             \* the execution loop: idle, pre, running, post, raised
    task,           \* the task of the current iteration
    idx,            \* the hook the current dispatch invokes next (0: none left)
    ntasks,         \* number of tasks started
    exitStatus,     \* <<>> while the process lives, <<status>> once it ended
    last            \* history: the most recent operation and its outcome

vars == <<hooks, registrations, delivered, now, files, pc, task, idx, ntasks,
          exitStatus, last>>

----------------------------------------------------------------------------
(* Bounds *)

MaxHooks == 2
MaxTasks == 3

----------------------------------------------------------------------------
(* Inputs *)

Tasks == {"t1", "t2"}

\* where the callbacks ignore their argument, one task is enough
OneTask == {"t1"}

NoTask == "none"

Paths == {<<"a">>, <<"b">>}

\* caller-supplied functions for exit_when_true, by the number of
\* positional arguments they accept
Funcs == {"f0", "f1"}

Arity(g) == IF g = "f0" THEN 0 ELSE 1

\* what a call of a caller-supplied function can do
Results == {"truthy", "falsy", "raises"}

NArgs == {-1, 0, 1, 2, 3}

\* <<hours, minutes, seconds>>
TimeArgs == {<<0, 0, 0>>, <<0, 0, 1>>, <<0, 1, 0>>, <<1, 0, 0>>}

\* the instants at which the clock is read
Instants == {0, 1, 59, 60, 3600}

----------------------------------------------------------------------------
(* The hook registry and the process *)

PreExecute == "execute.task-pre-execute"

Executed == "execute.task-executed1"

register_hook(reg, event, cb) == Append(reg, [event |-> event, cb |-> cb])

Alive == exitStatus = <<>>

Min(S) == CHOOSE x \in S : \A y \in S : x <= y

\* the first hook at or after position from that is registered for event
NextHook(reg, event, from) ==
    LET S == {i \in from..Len(reg) : reg[i].event = event}
    IN  IF S = {} THEN 0 ELSE Min(S)

EventOf(p) == IF p = "pre" THEN PreExecute ELSE Executed

----------------------------------------------------------------------------
(* Factories: the closure each one builds and registers *)

\* variant: the callback is registered for the post-execute event
exit_if_file_exists_post(reg, fname) ==
    register_hook(reg, Executed, [fn |-> "check_file", fname |-> fname])

exit_if_file_exists(reg, fname) ==
    register_hook(reg, PreExecute, [fn |-> "check_file", fname |-> fname])

\* the value the name f is rebound to by  f = lambda t : f()
Lambda == "lambda t : f()"

exit_when_true(reg, f, function_takes_Task) ==
    LET cell == IF ~function_takes_Task THEN Lambda ELSE f
    IN  register_hook(reg, Executed, [fn |-> "exit_when", f |-> cell])

exit_after_n_tasks(reg, n) ==
    register_hook(reg, Executed, [fn |-> "exit_after", n |-> n, executed |-> 0])

\* variant: an hour counts 60 seconds
exit_after_time_60h(reg, time, hours, minutes, seconds) ==
    register_hook(reg, Executed,
        [fn |-> "check_time", deadline |-> time + seconds + 60 * minutes + 60 * hours])

\* variant: the callback is registered for the pre-execute event
exit_after_time_pre(reg, time, hours, minutes, seconds) ==
    register_hook(reg, PreExecute,
        [fn |-> "check_time",
         deadline |-> time + seconds + 60 * minutes + 60 * 60 * hours])

exit_after_time(reg, time, hours, minutes, seconds) ==
    LET d0 == time
        d1 == d0 + seconds
        d2 == d1 + 60 * minutes
        deadline == d2 + 60 * 60 * hours
    IN  register_hook(reg, Executed, [fn |-> "check_time", deadline |-> deadline])

----------------------------------------------------------------------------
(* Callbacks: what one invocation of each closure does *)

path_exists(fs, fname) == fname \in fs

\* check_file(_t): "exit" when exit(0) is called, "return" otherwise
check_file(cb, fs) == IF path_exists(fs, cb.fname) THEN "exit" ELSE "return"

\* A call  callee(*args)  made inside exit_when.  cell is the value of the
\* name f in exit_when_true's scope, where the lambda's body looks f up when
\* it runs.  calls lists every call made, r is what a caller-supplied
\* function does once its arguments are accepted: it returns a truthy or a
\* falsy value, or raises.
RECURSIVE Call(_, _, _, _)
Call(callee, args, cell, r) ==
    IF callee = Lambda
    THEN IF Len(args) # 1
         THEN [calls |-> <<[fn |-> callee, args |-> args, result |-> "TypeError"]>>,
               out |-> "TypeError"]
         ELSE LET inner == Call(cell, <<>>, cell, r)
              IN  [calls |-> <<[fn |-> callee, args |-> args, result |-> inner.out]>>
                             \o inner.calls,
                   out |-> inner.out]
    ELSE IF Len(args) # Arity(callee)
         THEN [calls |-> <<[fn |-> callee, args |-> args, result |-> "TypeError"]>>,
               out |-> "TypeError"]
         ELSE [calls |-> <<[fn |-> callee, args |-> args, result |-> r]>>, out |-> r]

\* variant: f is called without the task
exit_when_no_task(cb, t, r) ==
    LET c == Call(cb.f, <<>>, cb.f, r)
    IN  [calls |-> c.calls,
         out   |-> IF c.out = "truthy" THEN "exit"
                   ELSE IF c.out = "falsy" THEN "return"
                   ELSE c.out]

\* variant: an exception raised by f is caught and the callback returns
exit_when_swallow(cb, t, r) ==
    LET c == Call(cb.f, <<t>>, cb.f, r)
    IN  [calls |-> c.calls,
         out   |-> IF c.out = "truthy" THEN "exit"
                   ELSE IF c.out \in {"falsy", "raises"} THEN "return"
                   ELSE c.out]

\* exit_when(t)
exit_when(cb, t, r) ==
    LET c == Call(cb.f, <<t>>, cb.f, r)
    IN  [calls |-> c.calls,
         out   |-> IF c.out = "truthy" THEN "exit"
                   ELSE IF c.out = "falsy" THEN "return"
                   ELSE c.out]

\* variant: the count is compared with >
exit_after_gt(cb) ==
    LET executed == cb.executed + 1
    IN  [cb  |-> [cb EXCEPT !.executed = executed],
         out |-> IF executed > cb.n THEN "exit" ELSE "return"]

\* variant: the count is compared with ==
exit_after_eq(cb) ==
    LET executed == cb.executed + 1
    IN  [cb  |-> [cb EXCEPT !.executed = executed],
         out |-> IF executed = cb.n THEN "exit" ELSE "return"]

\* variant: the incremented count is not stored back into the closure
exit_after_no_store(cb) ==
    LET executed == cb.executed + 1
    IN  [cb  |-> cb,
         out |-> IF executed >= cb.n THEN "exit" ELSE "return"]

\* exit_after(_t)
exit_after(cb) ==
    LET executed == cb.executed + 1
    IN  [cb  |-> [cb EXCEPT !.executed = executed],
         out |-> IF executed >= cb.n THEN "exit" ELSE "return"]

\* variant: the clock is compared with >
check_time_gt(cb, time) == IF time > cb.deadline THEN "exit" ELSE "return"

\* check_time(_t)
check_time(cb, time) == IF time >= cb.deadline THEN "exit" ELSE "return"

----------------------------------------------------------------------------
(* int(): Python's conversion of a string to an integer *)

Digits == {"0", "1", "2", "3", "4", "5", "6", "7", "8", "9"}

DigitValue(c) ==
    CASE c = "0" -> 0 [] c = "1" -> 1 [] c = "2" -> 2 [] c = "3" -> 3
      [] c = "4" -> 4 [] c = "5" -> 5 [] c = "6" -> 6 [] c = "7" -> 7
      [] c = "8" -> 8 [] c = "9" -> 9

IsSpace(c) == c = " "

RECURSIVE LStrip(_)
LStrip(s) == IF s # <<>> /\ IsSpace(Head(s)) THEN LStrip(Tail(s)) ELSE s

RECURSIVE RStrip(_)
RStrip(s) ==
    IF s # <<>> /\ IsSpace(s[Len(s)]) THEN RStrip(SubSeq(s, 1, Len(s) - 1)) ELSE s

Strip(s) == RStrip(LStrip(s))

\* digits, single underscores allowed between them
ValidDigits(s) ==
    /\ s # <<>>
    /\ \A i \in 1..Len(s) : s[i] \in Digits \/ s[i] = "_"
    /\ s[1] # "_" /\ s[Len(s)] # "_"
    /\ \A i \in 1..(Len(s) - 1) : ~(s[i] = "_" /\ s[i + 1] = "_")

RECURSIVE DigitsValue(_, _)
DigitsValue(s, acc) ==
    IF s = <<>> THEN acc
    ELSE IF Head(s) = "_" THEN DigitsValue(Tail(s), acc)
    ELSE DigitsValue(Tail(s), 10 * acc + DigitValue(Head(s)))

\* [ok |-> FALSE] stands for ValueError
int(str) ==
    LET s    == Strip(str)
        neg  == s # <<>> /\ Head(s) = "-"
        sign == s # <<>> /\ Head(s) \in {"+", "-"}
        body == IF sign THEN Tail(s) ELSE s
    IN  IF ValidDigits(body)
        THEN [ok |-> TRUE,
              val |-> IF neg THEN 0 - DigitsValue(body, 0) ELSE DigitsValue(body, 0)]
        ELSE [ok |-> FALSE, val |-> 0]

----------------------------------------------------------------------------
(* exit_env_vars *)

EnvKeys == {"JUG_MAX_TASKS", "JUG_MAX_HOURS", "JUG_MAX_MINUTES",
            "JUG_MAX_SECONDS", "JUG_EXIT_IF_FILE_EXISTS"}

\* values of the environment: integers, and strings int() rejects
EnvStrings == {<<>>, <<"0">>, <<"5">>, <<"-", "5">>, <<"-", "3", "0", "0">>, <<"a">>}

\* the mappings environ can be: every key is optional
Environs == UNION {[K -> EnvStrings] : K \in SUBSET EnvKeys}

\* int(environ[key]) if key is in environ, else the default 0
EnvInt(environ, key) ==
    IF key \in DOMAIN environ THEN int(environ[key]) ELSE [ok |-> TRUE, val |-> 0]

\* variant: JUG_MAX_TASKS is used only when its value is not 0
exit_env_vars_truthy(environ) ==
    LET n       == EnvInt(environ, "JUG_MAX_TASKS")
        tasks   == IF "JUG_MAX_TASKS" \in DOMAIN environ /\ n.val # 0
                   THEN <<[factory |-> "exit_after_n_tasks", args |-> <<n.val>>]>>
                   ELSE <<>>
        hours   == EnvInt(environ, "JUG_MAX_HOURS")
        minutes == EnvInt(environ, "JUG_MAX_MINUTES")
        seconds == EnvInt(environ, "JUG_MAX_SECONDS")
        timed   == IF hours.val # 0 \/ minutes.val # 0 \/ seconds.val # 0
                   THEN <<[factory |-> "exit_after_time",
                           args |-> <<hours.val, minutes.val, seconds.val>>]>>
                   ELSE <<>>
        file    == IF "JUG_EXIT_IF_FILE_EXISTS" \in DOMAIN environ
                   THEN <<[factory |-> "exit_if_file_exists",
                           args |-> <<environ["JUG_EXIT_IF_FILE_EXISTS"]>>]>>
                   ELSE <<>>
    IN  IF ~n.ok THEN [calls |-> <<>>, raised |-> TRUE]
        ELSE IF ~hours.ok \/ ~minutes.ok \/ ~seconds.ok
             THEN [calls |-> tasks, raised |-> TRUE]
             ELSE [calls |-> tasks \o timed \o file, raised |-> FALSE]

\* variant: the deadline watcher is installed when a time key is present
exit_env_vars_present(environ) ==
    LET n       == EnvInt(environ, "JUG_MAX_TASKS")
        tasks   == IF "JUG_MAX_TASKS" \in DOMAIN environ
                   THEN <<[factory |-> "exit_after_n_tasks", args |-> <<n.val>>]>>
                   ELSE <<>>
        hours   == EnvInt(environ, "JUG_MAX_HOURS")
        minutes == EnvInt(environ, "JUG_MAX_MINUTES")
        seconds == EnvInt(environ, "JUG_MAX_SECONDS")
        timed   == IF {"JUG_MAX_HOURS", "JUG_MAX_MINUTES", "JUG_MAX_SECONDS"}
                         \cap DOMAIN environ # {}
                   THEN <<[factory |-> "exit_after_time",
                           args |-> <<hours.val, minutes.val, seconds.val>>]>>
                   ELSE <<>>
        file    == IF "JUG_EXIT_IF_FILE_EXISTS" \in DOMAIN environ
                   THEN <<[factory |-> "exit_if_file_exists",
                           args |-> <<environ["JUG_EXIT_IF_FILE_EXISTS"]>>]>>
                   ELSE <<>>
    IN  IF ~n.ok THEN [calls |-> <<>>, raised |-> TRUE]
        ELSE IF ~hours.ok \/ ~minutes.ok \/ ~seconds.ok
             THEN [calls |-> tasks, raised |-> TRUE]
             ELSE [calls |-> tasks \o timed \o file, raised |-> FALSE]

\* variant: a JUG_MAX_TASKS that is no integer is ignored
exit_env_vars_tasks_default(environ) ==
    LET n       == EnvInt(environ, "JUG_MAX_TASKS")
        tasks   == IF "JUG_MAX_TASKS" \in DOMAIN environ
                   THEN <<[factory |-> "exit_after_n_tasks", args |-> <<n.val>>]>>
                   ELSE <<>>
        hours   == EnvInt(environ, "JUG_MAX_HOURS")
        minutes == EnvInt(environ, "JUG_MAX_MINUTES")
        seconds == EnvInt(environ, "JUG_MAX_SECONDS")
        timed   == IF hours.val # 0 \/ minutes.val # 0 \/ seconds.val # 0
                   THEN <<[factory |-> "exit_after_time",
                           args |-> <<hours.val, minutes.val, seconds.val>>]>>
                   ELSE <<>>
        file    == IF "JUG_EXIT_IF_FILE_EXISTS" \in DOMAIN environ
                   THEN <<[factory |-> "exit_if_file_exists",
                           args |-> <<environ["JUG_EXIT_IF_FILE_EXISTS"]>>]>>
                   ELSE <<>>
    IN  IF ~n.ok /\ (~hours.ok \/ ~minutes.ok \/ ~seconds.ok)
        THEN [calls |-> <<>>, raised |-> TRUE]
        ELSE IF ~n.ok THEN [calls |-> timed \o file, raised |-> FALSE]
        ELSE IF ~hours.ok \/ ~minutes.ok \/ ~seconds.ok
             THEN [calls |-> tasks, raised |-> TRUE]
             ELSE [calls |-> tasks \o timed \o file, raised |-> FALSE]

\* variant: JUG_EXIT_IF_FILE_EXISTS is used before the time keys are parsed
exit_env_vars_file_first(environ) ==
    LET n       == EnvInt(environ, "JUG_MAX_TASKS")
        tasks   == IF "JUG_MAX_TASKS" \in DOMAIN environ
                   THEN <<[factory |-> "exit_after_n_tasks", args |-> <<n.val>>]>>
                   ELSE <<>>
        hours   == EnvInt(environ, "JUG_MAX_HOURS")
        minutes == EnvInt(environ, "JUG_MAX_MINUTES")
        seconds == EnvInt(environ, "JUG_MAX_SECONDS")
        timed   == IF hours.val # 0 \/ minutes.val # 0 \/ seconds.val # 0
                   THEN <<[factory |-> "exit_after_time",
                           args |-> <<hours.val, minutes.val, seconds.val>>]>>
                   ELSE <<>>
        file    == IF "JUG_EXIT_IF_FILE_EXISTS" \in DOMAIN environ
                   THEN <<[factory |-> "exit_if_file_exists",
                           args |-> <<environ["JUG_EXIT_IF_FILE_EXISTS"]>>]>>
                   ELSE <<>>
    IN  IF ~n.ok THEN [calls |-> <<>>, raised |-> TRUE]
        ELSE IF ~hours.ok \/ ~minutes.ok \/ ~seconds.ok
             THEN [calls |-> tasks \o file, raised |-> TRUE]
             ELSE [calls |-> tasks \o timed \o file, raised |-> FALSE]

\* variant: the deadline watcher is installed when the total duration is positive
exit_env_vars_total(environ) ==
    LET n       == EnvInt(environ, "JUG_MAX_TASKS")
        tasks   == IF "JUG_MAX_TASKS" \in DOMAIN environ
                   THEN <<[factory |-> "exit_after_n_tasks", args |-> <<n.val>>]>>
                   ELSE <<>>
        hours   == EnvInt(environ, "JUG_MAX_HOURS")
        minutes == EnvInt(environ, "JUG_MAX_MINUTES")
        seconds == EnvInt(environ, "JUG_MAX_SECONDS")
        timed   == IF seconds.val + 60 * minutes.val + 60 * 60 * hours.val > 0
                   THEN <<[factory |-> "exit_after_time",
                           args |-> <<hours.val, minutes.val, seconds.val>>]>>
                   ELSE <<>>
        file    == IF "JUG_EXIT_IF_FILE_EXISTS" \in DOMAIN environ
                   THEN <<[factory |-> "exit_if_file_exists",
                           args |-> <<environ["JUG_EXIT_IF_FILE_EXISTS"]>>]>>
                   ELSE <<>>
    IN  IF ~n.ok THEN [calls |-> <<>>, raised |-> TRUE]
        ELSE IF ~hours.ok \/ ~minutes.ok \/ ~seconds.ok
             THEN [calls |-> tasks, raised |-> TRUE]
             ELSE [calls |-> tasks \o timed \o file, raised |-> FALSE]

\* The factory calls exit_env_vars makes, in order, and whether it then
\* raises ValueError instead of returning.
exit_env_vars(environ) ==
    LET n       == EnvInt(environ, "JUG_MAX_TASKS")
        tasks   == IF "JUG_MAX_TASKS" \in DOMAIN environ
                   THEN <<[factory |-> "exit_after_n_tasks", args |-> <<n.val>>]>>
                   ELSE <<>>
        hours   == EnvInt(environ, "JUG_MAX_HOURS")
        minutes == EnvInt(environ, "JUG_MAX_MINUTES")
        seconds == EnvInt(environ, "JUG_MAX_SECONDS")
        timed   == IF hours.val # 0 \/ minutes.val # 0 \/ seconds.val # 0
                   THEN <<[factory |-> "exit_after_time",
                           args |-> <<hours.val, minutes.val, seconds.val>>]>>
                   ELSE <<>>
        file    == IF "JUG_EXIT_IF_FILE_EXISTS" \in DOMAIN environ
                   THEN <<[factory |-> "exit_if_file_exists",
                           args |-> <<environ["JUG_EXIT_IF_FILE_EXISTS"]>>]>>
                   ELSE <<>>
    IN  IF ~n.ok THEN [calls |-> <<>>, raised |-> TRUE]
        ELSE IF ~hours.ok \/ ~minutes.ok \/ ~seconds.ok
             THEN [calls |-> tasks, raised |-> TRUE]
             ELSE [calls |-> tasks \o timed \o file, raised |-> FALSE]

\* the registry after one factory call
ApplyCall(reg, time, c) ==
    CASE c.factory = "exit_after_n_tasks"  -> exit_after_n_tasks(reg, c.args[1])
      [] c.factory = "exit_after_time"     ->
            exit_after_time(reg, time, c.args[1], c.args[2], c.args[3])
      [] c.factory = "exit_if_file_exists" -> exit_if_file_exists(reg, c.args[1])
      [] c.factory = "exit_when_true"      -> exit_when_true(reg, c.args[1], c.args[2])

RECURSIVE ApplyCalls(_, _, _)
ApplyCalls(reg, time, cs) ==
    IF cs = <<>> THEN reg ELSE ApplyCalls(ApplyCall(reg, time, Head(cs)), time, Tail(cs))

----------------------------------------------------------------------------
Init ==
    /\ hooks = <<>>
    /\ registrations = <<>>
    /\ delivered = <<>>
    /\ now = 0
    /\ files \in SUBSET Paths
    /\ pc = "idle"
    /\ task = NoTask
    /\ idx = 0
    /\ ntasks = 0
    /\ exitStatus = <<>>
    /\ last = [op |-> "start"]

----------------------------------------------------------------------------
(* Registration: a factory is called between two tasks *)

CanRegister(k) == Alive /\ pc = "idle" /\ Len(hooks) + k <= MaxHooks

\* the effect of the factory calls cs on the registry and its history
Register(cs) ==
    /\ hooks' = ApplyCalls(hooks, now, cs)
    /\ registrations' = registrations \o
          [i \in 1..Len(cs) |->
              [factory |-> cs[i].factory, args |-> cs[i].args,
               time |-> now, ntasks |-> ntasks]]
    /\ delivered' = delivered \o [i \in 1..Len(cs) |-> 0]
    /\ UNCHANGED <<now, files, pc, task, idx, ntasks, exitStatus>>

ExitIfFileExists(fname) ==
    /\ CanRegister(1)
    /\ Register(<<[factory |-> "exit_if_file_exists", args |-> <<fname>>]>>)
    /\ last' = [op |-> "exit_if_file_exists"]

ExitWhenTrue(f, function_takes_Task) ==
    /\ CanRegister(1)
    /\ Register(<<[factory |-> "exit_when_true", args |-> <<f, function_takes_Task>>]>>)
    /\ last' = [op |-> "exit_when_true"]

ExitAfterNTasks(n) ==
    /\ CanRegister(1)
    /\ Register(<<[factory |-> "exit_after_n_tasks", args |-> <<n>>]>>)
    /\ last' = [op |-> "exit_after_n_tasks"]

ExitAfterTime(hours, minutes, seconds) ==
    /\ CanRegister(1)
    /\ Register(<<[factory |-> "exit_after_time", args |-> <<hours, minutes, seconds>>]>>)
    /\ last' = [op |-> "exit_after_time"]

\* exit_env_vars(environ), the first thing the process does
ExitEnvVars ==
    /\ Alive
    /\ pc = "idle"
    /\ last.op = "start"
    /\ \E environ \in Environs :
          LET r == exit_env_vars(environ)
          IN  /\ Register(r.calls)
              /\ last' = [op |-> "exit_env_vars", environ |-> environ,
                          raised |-> r.raised]

----------------------------------------------------------------------------
(* The world outside: the clock and the filesystem *)

\* the clock moves on to a later instant t
Tick(t) ==
    /\ Alive
    /\ t > now
    /\ now' = t
    /\ last' = [op |-> "Tick"]
    /\ UNCHANGED <<hooks, registrations, delivered, files, pc, task, idx, ntasks,
                   exitStatus>>

Touch(p) ==
    /\ Alive
    /\ p \notin files
    /\ files' = files \cup {p}
    /\ last' = [op |-> "Touch"]
    /\ UNCHANGED <<hooks, registrations, delivered, now, pc, task, idx, ntasks,
                   exitStatus>>

Remove(p) ==
    /\ Alive
    /\ p \in files
    /\ files' = files \ {p}
    /\ last' = [op |-> "Remove"]
    /\ UNCHANGED <<hooks, registrations, delivered, now, pc, task, idx, ntasks,
                   exitStatus>>

----------------------------------------------------------------------------
(* The execution loop: pre-execute hooks, the task, post-execute hooks *)

StartTask(t) ==
    /\ Alive
    /\ pc = "idle"
    /\ ntasks < MaxTasks
    /\ pc' = "pre"
    /\ task' = t
    /\ idx' = NextHook(hooks, PreExecute, 1)
    /\ ntasks' = ntasks + 1
    /\ last' = [op |-> "StartTask"]
    /\ UNCHANGED <<hooks, registrations, delivered, now, files, exitStatus>>

\* every pre-execute hook has returned: the task begins
BeginTask ==
    /\ Alive
    /\ pc = "pre"
    /\ idx = 0
    /\ pc' = "running"
    /\ last' = [op |-> "BeginTask"]
    /\ UNCHANGED <<hooks, registrations, delivered, now, files, task, idx, ntasks,
                   exitStatus>>

\* the task finishes: the post-execute event is fired
FinishTask ==
    /\ Alive
    /\ pc = "running"
    /\ pc' = "post"
    /\ idx' = NextHook(hooks, Executed, 1)
    /\ last' = [op |-> "FinishTask"]
    /\ UNCHANGED <<hooks, registrations, delivered, now, files, task, ntasks,
                   exitStatus>>

\* every post-execute hook has returned: the loop goes on
EndTask ==
    /\ Alive
    /\ pc = "post"
    /\ idx = 0
    /\ pc' = "idle"
    /\ task' = NoTask
    /\ last' = [op |-> "EndTask"]
    /\ UNCHANGED <<hooks, registrations, delivered, now, files, idx, ntasks,
                   exitStatus>>

\* an exception that left a hook is handled by the loop, which goes on
Recover ==
    /\ Alive
    /\ pc = "raised"
    /\ pc' = "idle"
    /\ task' = NoTask
    /\ last' = [op |-> "Recover"]
    /\ UNCHANGED <<hooks, registrations, delivered, now, files, idx, ntasks,
                   exitStatus>>

\* the hook hooks[idx] is the one to invoke now, and its closure is fn
Invoking(fn) ==
    /\ Alive
    /\ pc \in {"pre", "post"}
    /\ idx # 0
    /\ hooks[idx].cb.fn = fn

\* variant: a decision to exit waits until the later hooks of the event ran
InvokedDeferred(cb, calls, out) ==
    LET later == NextHook(hooks, EventOf(pc), idx + 1)
    IN  /\ hooks' = [hooks EXCEPT ![idx].cb = cb]
        /\ delivered' = [delivered EXCEPT ![idx] = @ + 1]
        /\ last' = [op |-> "callback", hook |-> idx, event |-> EventOf(pc),
                    task |-> task, calls |-> calls, out |-> out]
        /\ exitStatus' = IF out = "exit" /\ later = 0 THEN <<0>> ELSE exitStatus
        /\ pc' = IF out \in {"exit", "return"} THEN pc ELSE "raised"
        /\ idx' = IF out = "exit" THEN (IF later = 0 THEN idx ELSE later)
                  ELSE IF out = "return" THEN later
                  ELSE 0
        /\ UNCHANGED <<registrations, now, files, task, ntasks>>

\* hooks[idx] was invoked: its closure is now cb, it made calls and ended out
Invoked(cb, calls, out) ==
    /\ hooks' = [hooks EXCEPT ![idx].cb = cb]
    /\ delivered' = [delivered EXCEPT ![idx] = @ + 1]
    /\ last' = [op |-> "callback", hook |-> idx, event |-> EventOf(pc),
                task |-> task, calls |-> calls, out |-> out]
    /\ exitStatus' = IF out = "exit" THEN <<0>> ELSE exitStatus
    /\ pc' = IF out \in {"exit", "return"} THEN pc ELSE "raised"
    /\ idx' = IF out = "exit" THEN idx
              ELSE IF out = "return" THEN NextHook(hooks, EventOf(pc), idx + 1)
              ELSE 0
    /\ UNCHANGED <<registrations, now, files, task, ntasks>>

CheckFile ==
    /\ Invoking("check_file")
    /\ Invoked(hooks[idx].cb, <<>>, check_file(hooks[idx].cb, files))

ExitWhen ==
    /\ Invoking("exit_when")
    /\ \E r \in Results :
          LET c == exit_when(hooks[idx].cb, task, r)
          IN  Invoked(hooks[idx].cb, c.calls, c.out)

\* variant: one count shared by all counter watchers
ExitAfterShared ==
    /\ Invoking("exit_after")
    /\ LET c == exit_after(hooks[idx].cb)
       IN  /\ hooks' = [j \in 1..Len(hooks) |->
                          IF hooks[j].cb.fn = "exit_after"
                          THEN [hooks[j] EXCEPT !.cb.executed = c.cb.executed]
                          ELSE hooks[j]]
           /\ delivered' = [delivered EXCEPT ![idx] = @ + 1]
           /\ last' = [op |-> "callback", hook |-> idx, event |-> EventOf(pc),
                       task |-> task, calls |-> <<>>, out |-> c.out]
           /\ exitStatus' = IF c.out = "exit" THEN <<0>> ELSE exitStatus
           /\ pc' = pc
           /\ idx' = IF c.out = "exit" THEN idx
                     ELSE NextHook(hooks, EventOf(pc), idx + 1)
           /\ UNCHANGED <<registrations, now, files, task, ntasks>>

ExitAfter ==
    /\ Invoking("exit_after")
    /\ LET c == exit_after(hooks[idx].cb)
       IN  Invoked(c.cb, <<>>, c.out)

CheckTime ==
    /\ Invoking("check_time")
    /\ Invoked(hooks[idx].cb, <<>>, check_time(hooks[idx].cb, now))

----------------------------------------------------------------------------
(* Specifications: one per kind of watcher, and the environment composer *)

\* the loop itself, common to all, running the tasks T
Core(T) ==
    \/ \E t \in T : StartTask(t)
    \/ BeginTask
    \/ FinishTask
    \/ EndTask

\* counter watchers
NextCount ==
    \/ \E n \in NArgs : ExitAfterNTasks(n)
    \/ ExitAfter
    \/ Core(OneTask)

SpecCount == Init /\ [][NextCount]_vars

\* deadline watchers
NextTime ==
    \/ \E a \in TimeArgs : ExitAfterTime(a[1], a[2], a[3])
    \/ \E t \in Instants : Tick(t)
    \/ CheckTime
    \/ Core(OneTask)

SpecTime == Init /\ [][NextTime]_vars

\* file-marker watchers
NextFile ==
    \/ \E p \in Paths : ExitIfFileExists(p)
    \/ \E p \in Paths : Touch(p)
    \/ \E p \in Paths : Remove(p)
    \/ CheckFile
    \/ Core(OneTask)

SpecFile == Init /\ [][NextFile]_vars

\* predicate watchers
NextPred ==
    \/ \E f \in Funcs, b \in BOOLEAN : ExitWhenTrue(f, b)
    \/ ExitWhen
    \/ Recover
    \/ Core(Tasks)

SpecPred == Init /\ [][NextPred]_vars

\* the process configured from its environment
NextEnv ==
    \/ ExitEnvVars
    \/ \E t \in Instants : Tick(t)
    \/ \E p \in Paths : Touch(p)
    \/ \E p \in Paths : Remove(p)
    \/ ExitAfter
    \/ CheckTime
    \/ CheckFile
    \/ Core(OneTask)

SpecEnv == Init /\ [][NextEnv]_vars

\* watchers of every kind in one registry, on a few inputs
MixedPaths == {<<"a">>}

MixedPredicates == {<<"f1", TRUE>>, <<"f0", FALSE>>}

MixedNArgs == {0, 1, 2}

MixedTimeArgs == {<<0, 0, 0>>, <<0, 0, 1>>}

MixedInstants == {1}

NextAll ==
    \/ \E p \in MixedPaths : ExitIfFileExists(p)
    \/ \E a \in MixedPredicates : ExitWhenTrue(a[1], a[2])
    \/ \E n \in MixedNArgs : ExitAfterNTasks(n)
    \/ \E a \in MixedTimeArgs : ExitAfterTime(a[1], a[2], a[3])
    \/ \E t \in MixedInstants : Tick(t)
    \/ \E p \in MixedPaths : Touch(p)
    \/ \E p \in MixedPaths : Remove(p)
    \/ CheckFile
    \/ ExitWhen
    \/ ExitAfter
    \/ CheckTime
    \/ Recover
    \/ Core(OneTask)

SpecAll == Init /\ [][NextAll]_vars

----------------------------------------------------------------------------
(* Properties *)

HookIds == 1..Len(hooks)

\* hook i ended the process with status 0
ExitedBy(i) ==
    /\ exitStatus = <<0>>
    /\ last.op = "callback"
    /\ last.hook = i
    /\ last.out = "exit"

\* the number of post-execute events fired since hook i was registered
Fired(i) ==
    (ntasks - registrations[i].ntasks) - (IF pc \in {"pre", "running"} THEN 1 ELSE 0)

IsCounter(i) == registrations[i].factory = "exit_after_n_tasks"

\* C1: a counter watcher registered with n >= 1 is invoked on every
\* post-execute event fired after its registration, lets events 1..n-1 pass
\* and ends the process with status 0 on exactly its n-th event.
C1_CounterExitsOnNthEvent ==
    \A i \in HookIds :
        (IsCounter(i) /\ registrations[i].args[1] >= 1) =>
            LET n == registrations[i].args[1]
            IN  /\ delivered[i] <= n
                /\ delivered[i] <= Fired(i)
                /\ ExitedBy(i) <=> delivered[i] = n
                /\ (Alive /\ pc # "post") => (delivered[i] = Fired(i) /\ Fired(i) < n)

C1_Witness ==
    \E i \in HookIds :
        /\ IsCounter(i)
        /\ registrations[i].args[1] = 3
        /\ registrations[i].ntasks = 0
        /\ ExitedBy(i)
        /\ ntasks = 3

IsPredicate(i) == registrations[i].factory = "exit_when_true"

\* the calls of the caller's function g that the last callback made
CallsOf(g) == {k \in 1..Len(last.calls) : last.calls[k].fn = g}

\* C2: a predicate watcher registered with function_takes_Task = False
\* calls f with zero arguments on every post-execute event, does not fail on
\* its own when f accepts zero arguments, and ends the process with status 0
\* exactly when that call returns a truthy value.
C2_ZeroArgumentCall ==
    (last.op = "callback" /\ IsPredicate(last.hook)) =>
        LET f == registrations[last.hook].args[1]
            function_takes_Task == registrations[last.hook].args[2]
        IN  (~function_takes_Task /\ Arity(f) = 0) =>
                /\ \E k \in CallsOf(f) : last.calls[k].args = <<>>
                /\ last.out # "TypeError"
                /\ last.out = "exit" <=>
                       \E k \in CallsOf(f) : last.calls[k].result = "truthy"

\* C3: a predicate watcher registered with function_takes_Task = True calls
\* f exactly once per post-execute event, with the task of that event, and
\* ends the process with status 0 if and only if f returns a truthy value.
C3_TaskPassedToPredicate ==
    (last.op = "callback" /\ IsPredicate(last.hook)) =>
        LET f == registrations[last.hook].args[1]
            function_takes_Task == registrations[last.hook].args[2]
        IN  function_takes_Task =>
                /\ last.event = Executed
                /\ Len(last.calls) = 1
                /\ last.calls[1].fn = f
                /\ last.calls[1].args = <<task>>
                /\ last.out = "exit" <=> last.calls[1].result = "truthy"
                /\ ExitedBy(last.hook) <=> last.calls[1].result = "truthy"
                /\ Alive <=> last.calls[1].result # "truthy"

C3_Witness ==
    /\ last.op = "callback"
    /\ registrations[last.hook].args = <<"f1", TRUE>>
    /\ task = "t2"
    /\ last.calls = <<[fn |-> "f1", args |-> <<"t2">>, result |-> "truthy"]>>
    /\ exitStatus = <<0>>

\* C4: a file-marker watcher is checked at every pre-execute event and at no
\* other moment; the process ends with status 0, before the task begins,
\* exactly when the path exists at that check, and goes on otherwise.
C4_FileMarkerCheckedBeforeEachTask ==
    /\ last.op = "callback" =>
           /\ last.event = PreExecute
           /\ pc = "pre"
           /\ last.out \in {"exit", "return"}
           /\ last.out = "exit" <=> registrations[last.hook].args[1] \in files
           /\ last.out = "exit" <=> ~Alive
    /\ ~Alive => (pc = "pre" /\ ExitedBy(last.hook))
    /\ (Alive /\ pc # "pre") =>
           \A i \in HookIds : delivered[i] = ntasks - registrations[i].ntasks

C4_Witness ==
    /\ ~Alive
    /\ ntasks = 2
    /\ delivered[last.hook] = 2
    /\ registrations[last.hook].args[1] \in files

IsDeadline(i) == registrations[i].factory = "exit_after_time"

\* time() at registration + seconds + 60*minutes + 3600*hours
DeadlineAtRegistration(i) ==
    registrations[i].time + registrations[i].args[3]
        + 60 * registrations[i].args[2] + 3600 * registrations[i].args[1]

\* C5: the deadline of a deadline watcher is, in every state, the time of
\* its registration + seconds + 60*minutes + 3600*hours; each post-execute
\* check ends the process with status 0 exactly when now >= deadline, so the
\* process ends at the first such check and at none before.
C5_DeadlineFixedAtRegistration ==
    /\ \A i \in HookIds :
           IsDeadline(i) => hooks[i].cb.deadline = DeadlineAtRegistration(i)
    /\ (last.op = "callback" /\ IsDeadline(last.hook)) =>
           /\ last.out \in {"exit", "return"}
           /\ last.out = "exit" <=> now >= DeadlineAtRegistration(last.hook)
           /\ ExitedBy(last.hook) <=> now >= DeadlineAtRegistration(last.hook)
           /\ Alive <=> now < DeadlineAtRegistration(last.hook)

C5_Witness ==
    \E i \in HookIds :
        /\ IsDeadline(i)
        /\ registrations[i].args = <<0, 1, 0>>
        /\ registrations[i].time = 59
        /\ delivered[i] = 2
        /\ ExitedBy(i)

\* C6: a deadline watcher is invoked at post-execute events only: the
\* process never ends at a pre-execute event or while a task executes, even
\* when the deadline has passed, but at the post-execute event of the task.
C6_DeadlineCheckedAfterTasksOnly ==
    /\ \A i \in HookIds :
           IsDeadline(i) => (hooks[i].event = Executed /\ delivered[i] <= Fired(i))
    /\ (last.op = "callback" /\ IsDeadline(last.hook)) =>
           /\ last.event = Executed
           /\ pc = "post"
           /\ now >= DeadlineAtRegistration(last.hook) => ~Alive
    /\ ~Alive => (pc = "post" /\ task # NoTask /\ ExitedBy(last.hook))
    /\ pc \in {"pre", "running"} => Alive

C6_Witness ==
    /\ pc = "running"
    /\ Alive
    /\ \E i \in HookIds :
           /\ IsDeadline(i)
           /\ delivered[i] >= 1
           /\ now >= hooks[i].cb.deadline

\* C7: a deadline watcher registered with hours = minutes = seconds = 0
\* ends the process on the first post-execute event after its registration.
C7_ZeroDurationExitsOnNextEvent ==
    \A i \in HookIds :
        (IsDeadline(i) /\ registrations[i].args = <<0, 0, 0>>) =>
            /\ delivered[i] <= 1
            /\ ExitedBy(i) <=> delivered[i] = 1
            /\ (Alive /\ pc # "post") => Fired(i) = 0

C7_Witness ==
    \E i \in HookIds :
        /\ IsDeadline(i)
        /\ registrations[i].args = <<0, 0, 0>>
        /\ now = registrations[i].time
        /\ ExitedBy(i)

\* C8: a counter watcher registered with n <= 0 ends the process with
\* status 0 on the first post-execute event after its registration, and not
\* at registration.
C8_NonPositiveCountExitsOnFirstEvent ==
    /\ \A i \in HookIds :
           (IsCounter(i) /\ registrations[i].args[1] <= 0) =>
               /\ delivered[i] <= 1
               /\ ExitedBy(i) <=> delivered[i] = 1
               /\ (Alive /\ pc # "post") => Fired(i) = 0
    /\ last.op = "exit_after_n_tasks" =>
           (Alive /\ delivered[Len(hooks)] = 0 /\ hooks[Len(hooks)].cb.executed = 0)

C8_Witness ==
    \E i \in HookIds :
        /\ IsCounter(i)
        /\ registrations[i].args[1] = -1
        /\ hooks[i].cb.executed = 1
        /\ ExitedBy(i)

NumericKeys == {"JUG_MAX_TASKS", "JUG_MAX_HOURS", "JUG_MAX_MINUTES", "JUG_MAX_SECONDS"}

TimeKeys == {"JUG_MAX_HOURS", "JUG_MAX_MINUTES", "JUG_MAX_SECONDS"}

\* the integers written by the strings of EnvStrings, read off by hand
Written(str) ==
    CASE str = <<"0">> -> <<0>>
      [] str = <<"5">> -> <<5>>
      [] str = <<"-", "5">> -> <<-5>>
      [] str = <<"-", "3", "0", "0">> -> <<-300>>
      [] OTHER -> <<>>

\* every numeric key present in environ holds an integer
AllIntegers(environ) ==
    \A k \in NumericKeys \cap DOMAIN environ : Written(environ[k]) # <<>>

\* the integer of key k in environ, 0 when k is absent
Component(environ, k) ==
    IF k \in DOMAIN environ /\ Written(environ[k]) # <<>>
    THEN Written(environ[k])[1] ELSE 0

Installed(fn) == {i \in HookIds : hooks[i].cb.fn = fn}

\* C9: when every numeric value present parses, exit_env_vars installs one
\* counter watcher with threshold int(JUG_MAX_TASKS) iff JUG_MAX_TASKS is
\* present, and one file-marker watcher on the given path iff
\* JUG_EXIT_IF_FILE_EXISTS is present; an absent key installs nothing.
C9_EnvInstallsCounterAndFileMarker ==
    (last.op = "exit_env_vars" /\ AllIntegers(last.environ)) =>
        LET environ == last.environ
        IN  /\ ~last.raised
            /\ IF "JUG_MAX_TASKS" \in DOMAIN environ
               THEN \E i \in HookIds :
                       /\ Installed("exit_after") = {i}
                       /\ hooks[i].event = Executed
                       /\ hooks[i].cb.n = Component(environ, "JUG_MAX_TASKS")
                       /\ hooks[i].cb.executed = 0
               ELSE Installed("exit_after") = {}
            /\ IF "JUG_EXIT_IF_FILE_EXISTS" \in DOMAIN environ
               THEN \E i \in HookIds :
                       /\ Installed("check_file") = {i}
                       /\ hooks[i].event = PreExecute
                       /\ hooks[i].cb.fname = environ["JUG_EXIT_IF_FILE_EXISTS"]
               ELSE Installed("check_file") = {}
            /\ Installed("exit_when") = {}
            /\ DOMAIN environ = {"JUG_MAX_TASKS"} => Len(hooks) = 1
            /\ DOMAIN environ = {} => hooks = <<>>

C9_Witness ==
    /\ last.op = "exit_env_vars"
    /\ last.environ = [k \in {"JUG_MAX_TASKS"} |-> <<"5">>]
    /\ Len(hooks) = 1
    /\ hooks[1].cb.fn = "exit_after"
    /\ hooks[1].cb.n = 5

\* some time key is present with a value that is a non-zero integer
SomeTimeNonZero(environ) ==
    \E k \in TimeKeys \cap DOMAIN environ :
        Written(environ[k]) # <<>> /\ Written(environ[k]) # <<0>>

\* at most one deadline watcher, made of the three components together
OneDeadlineWatcher(environ) ==
    /\ Cardinality(Installed("check_time")) <= 1
    /\ \A i \in Installed("check_time") :
           /\ hooks[i].event = Executed
           /\ hooks[i].cb.deadline =
                  now + Component(environ, "JUG_MAX_SECONDS")
                      + 60 * Component(environ, "JUG_MAX_MINUTES")
                      + 3600 * Component(environ, "JUG_MAX_HOURS")

\* C10 as stated: exit_env_vars installs at most one deadline watcher,
\* combining the three components, and installs it if and only if one of
\* the three time keys is present with a value that parses to non-zero.
C10_DeadlineIffSomeTimeNonZero ==
    last.op = "exit_env_vars" =>
        /\ OneDeadlineWatcher(last.environ)
        /\ Installed("check_time") # {} <=> SomeTimeNonZero(last.environ)

\* C10 amended: at most one deadline watcher, combining the three
\* components, and only if a time key is present with a non-zero value; it
\* is installed if and only if that is so provided every numeric key present
\* (JUG_MAX_TASKS included) parses as an integer.
C10_DeadlineIffSomeTimeNonZeroWhenAllParse ==
    last.op = "exit_env_vars" =>
        /\ OneDeadlineWatcher(last.environ)
        /\ Installed("check_time") # {} => SomeTimeNonZero(last.environ)
        /\ AllIntegers(last.environ) =>
               (Installed("check_time") # {} <=> SomeTimeNonZero(last.environ))

C10_Witness ==
    /\ last.op = "exit_env_vars"
    /\ DOMAIN last.environ = TimeKeys
    /\ last.environ["JUG_MAX_HOURS"] = <<"0">>
    /\ last.environ["JUG_MAX_MINUTES"] = <<"5">>
    /\ last.environ["JUG_MAX_SECONDS"] = <<"-", "5">>
    /\ Len(hooks) = 1
    /\ hooks[1].cb.deadline = now + 295

\* C11: when JUG_MAX_TASKS is present with a value that is no integer,
\* exit_env_vars raises and installs no watcher at all, whatever the other
\* keys hold.
C11_BadMaxTasksInstallsNothing ==
    (/\ last.op = "exit_env_vars"
     /\ "JUG_MAX_TASKS" \in DOMAIN last.environ
     /\ Written(last.environ["JUG_MAX_TASKS"]) = <<>>) =>
        /\ last.raised
        /\ hooks = <<>>
        /\ registrations = <<>>
        /\ Alive

C11_Witness ==
    /\ last.op = "exit_env_vars"
    /\ DOMAIN last.environ = EnvKeys
    /\ last.environ["JUG_MAX_TASKS"] = <<>>
    /\ last.environ["JUG_MAX_HOURS"] = <<"5">>
    /\ last.environ["JUG_EXIT_IF_FILE_EXISTS"] = <<"a">>
    /\ last.raised
    /\ hooks = <<>>

\* some time key is present with a value that is no integer
SomeTimeNotInteger(environ) ==
    \E k \in TimeKeys \cap DOMAIN environ : Written(environ[k]) = <<>>

\* C12: when a time key is present with a value that is no integer,
\* exit_env_vars raises and installs neither a deadline watcher nor a
\* file-marker watcher; the only watcher it can have installed is the counter
\* watcher of a valid JUG_MAX_TASKS, processed before.
C12_BadTimeKeyKeepsOnlyCounter ==
    (last.op = "exit_env_vars" /\ SomeTimeNotInteger(last.environ)) =>
        LET environ == last.environ
        IN  /\ last.raised
            /\ Installed("check_time") = {}
            /\ Installed("check_file") = {}
            /\ Installed("exit_when") = {}
            /\ IF "JUG_MAX_TASKS" \in DOMAIN environ
                  /\ Written(environ["JUG_MAX_TASKS"]) # <<>>
               THEN /\ Len(hooks) = 1
                    /\ hooks[1].cb.fn = "exit_after"
                    /\ hooks[1].cb.n = Component(environ, "JUG_MAX_TASKS")
               ELSE hooks = <<>>

C12_Witness ==
    /\ last.op = "exit_env_vars"
    /\ DOMAIN last.environ = EnvKeys
    /\ last.environ["JUG_MAX_TASKS"] = <<"5">>
    /\ last.environ["JUG_MAX_HOURS"] = <<"5">>
    /\ last.environ["JUG_MAX_MINUTES"] = <<"0">>
    /\ last.environ["JUG_MAX_SECONDS"] = <<"a">>
    /\ last.environ["JUG_EXIT_IF_FILE_EXISTS"] = <<"a">>
    /\ last.raised
    /\ Len(hooks) = 1
    /\ hooks[1].cb.fn = "exit_after"

\* a step changes the closure of hook j only by invoking hook j
OwnStateOnly ==
    \A j \in HookIds :
        hooks'[j] # hooks[j] =>
            /\ last'.op = "callback"
            /\ last'.hook = j
            /\ delivered'[j] = delivered[j] + 1
            /\ hooks'[j].cb.fn = "exit_after"
            /\ hooks'[j].event = hooks[j].event
            /\ hooks'[j].cb.n = hooks[j].cb.n

\* two counter watchers, registered together, are the whole registry
TwoCounters ==
    /\ Len(hooks) = 2
    /\ IsCounter(1) /\ IsCounter(2)
    /\ registrations[1].args[1] >= 1 /\ registrations[2].args[1] >= 1
    /\ registrations[1].ntasks = registrations[2].ntasks

\* each counter watcher counts its own invocations; two counter watchers
\* end the process on post-execute event number min(n1, n2)
OwnCounters ==
    /\ \A i \in HookIds :
           IsCounter(i) =>
               /\ hooks[i].cb.executed = delivered[i]
               /\ hooks[i].cb.n = registrations[i].args[1]
               /\ ExitedBy(i) => delivered[i] >= registrations[i].args[1]
               /\ (ExitedBy(i) /\ registrations[i].args[1] >= 1) =>
                      delivered[i] = registrations[i].args[1]
    /\ \A i \in HookIds :
           IsDeadline(i) => hooks[i].cb.deadline = DeadlineAtRegistration(i)
    /\ TwoCounters =>
           LET m == Min({registrations[1].args[1], registrations[2].args[1]})
           IN  /\ ~Alive => Fired(1) = m
               /\ (Alive /\ pc # "post") => Fired(1) < m

\* C13: watchers hold independent private state: invoking a callback leaves
\* the counter and the deadline of every other watcher unchanged, each
\* counter watcher counts its own invocations, and two counter watchers with
\* thresholds n1, n2 >= 1 end the process on event number min(n1, n2).
C13_IndependentWatcherState == []OwnCounters /\ [][OwnStateOnly]_vars

C13_Witness ==
    /\ TwoCounters
    /\ registrations[1].args[1] = 2
    /\ registrations[2].args[1] = 2
    /\ ExitedBy(1)
    /\ delivered[1] = 2
    /\ delivered[2] = 1
    /\ hooks[2].cb.executed = 1

\* the last callback called a caller-supplied function, which raised
PredicateRaised ==
    /\ last.op = "callback"
    /\ \E k \in 1..Len(last.calls) :
           last.calls[k].fn \in Funcs /\ last.calls[k].result = "raises"

\* the exception of f leaves the callback as it is, the process lives and
\* the watcher is still in the registry; the first hook of the registry is
\* invoked on every post-execute event, whatever it did on the events before
RaisePassedOn ==
    /\ PredicateRaised =>
           /\ last.out = "raises"
           /\ pc = "raised"
           /\ Alive
           /\ hooks[last.hook].event = Executed
           /\ hooks[last.hook].cb.fn = "exit_when"
           /\ hooks[last.hook].cb.f = registrations[last.hook].args[1]
    /\ (hooks # <<>> /\ pc # "post") => delivered[1] = Fired(1)

\* no step removes or changes a registered predicate watcher
StaysRegistered ==
    /\ Len(hooks') >= Len(hooks)
    /\ \A j \in HookIds : hooks'[j] = hooks[j]

\* C14: an exception raised by f inside the predicate watcher's callback
\* leaves the callback unchanged, the watcher does not end the process for
\* that event, stays registered and is evaluated again on later events.
C14_PredicateExceptionPropagates == []RaisePassedOn /\ [][StaysRegistered]_vars

C14_Witness ==
    /\ PredicateRaised
    /\ pc = "raised"
    /\ last.hook = 1
    /\ delivered[1] = 3
    /\ last.calls = <<[fn |-> "f1", args |-> <<task>>, result |-> "raises"]>>

\* a callback that decides to exit ends the process there and then, with
\* status 0, inside the dispatch of its event
ExitIsFinal ==
    /\ exitStatus \in {<<>>, <<0>>}
    /\ (last.op = "callback" /\ last.out = "exit") <=> ~Alive
    /\ ~Alive =>
           /\ ExitedBy(idx)
           /\ pc \in {"pre", "post"}
           /\ hooks[idx].event = EventOf(pc)
           /\ last.event = EventOf(pc)

\* every step starts in a live process; a callback step invokes the hook
\* the dispatch is at, and the dispatch moves on, in registration order, to
\* the next hook of the same event only when the callback returned
DispatchStep ==
    /\ Alive
    /\ (last'.op = "callback") =>
           /\ last'.hook = idx
           /\ hooks[idx].event = EventOf(pc)
           /\ \A j \in HookIds : j # idx => delivered'[j] = delivered[j]
           /\ last'.out = "return" =>
                  /\ idx' = NextHook(hooks, EventOf(pc), idx + 1)
                  /\ idx' = 0 \/ idx' > idx
           /\ last'.out # "return" => idx' \in {0, idx}
    /\ (last'.op \in {"StartTask", "FinishTask"}) =>
           idx' = NextHook(hooks, EventOf(pc'), 1)

\* C15: once a callback decides to terminate, the process has exit status 0
\* and takes no further step: no later hook of the same event is invoked for
\* that firing, no later event is dispatched and no task starts; hooks of
\* one event are invoked in registration order.
C15_TerminationImmediateAndFinal == []ExitIsFinal /\ [][DispatchStep]_vars

C15_Witness ==
    /\ ~Alive
    /\ Len(hooks) = 2
    /\ idx = 1
    /\ hooks[2].event = hooks[1].event
    /\ IsCounter(2)
    /\ registrations[2].args[1] = 1
    /\ registrations[2].ntasks = 0
    /\ delivered = <<1, 0>>

\* the closure of hook i belongs to a counter watcher
CountsTasks(i) == hooks[i].cb.fn = "exit_after"

\* the count of every counter watcher is the number of its invocations
CountIsInvocations ==
    \A i \in HookIds :
        IsCounter(i) =>
            /\ CountsTasks(i)
            /\ hooks[i].event = Executed
            /\ hooks[i].cb.executed = delivered[i]
            /\ hooks[i].cb.n = registrations[i].args[1]

\* a count moves by one on a post-execute event delivered to its watcher
\* and by nothing on any other step; a new counter watcher starts at 0
CountStep ==
    /\ \A i \in HookIds :
           IsCounter(i) =>
               hooks'[i].cb.executed =
                   IF last'.op = "callback" /\ last'.hook = i
                   THEN hooks[i].cb.executed + 1
                   ELSE hooks[i].cb.executed
    /\ \A i \in HookIds :
           (IsCounter(i) /\ last'.op = "callback" /\ last'.hook = i) =>
               last'.event = Executed
    /\ \A i \in (Len(hooks) + 1)..Len(hooks') :
           hooks'[i].cb.fn = "exit_after" => hooks'[i].cb.executed = 0

\* C16: a counter watcher's count is the number of invocations of its
\* callback since registration: 0 at first, one more on each post-execute
\* event delivered to it, the same after pre-execute events and all other
\* operations, never less and never reset.
C16_CountEqualsInvocations == []CountIsInvocations /\ [][CountStep]_vars

C16_Witness ==
    /\ Alive
    /\ pc = "running"
    /\ ntasks = 2
    /\ Len(hooks) = 2
    /\ hooks[1].event = PreExecute
    /\ delivered[1] = 2
    /\ IsCounter(2)
    /\ hooks[2].cb.executed = 1
    /\ delivered[2] = 1

Factories == {"exit_if_file_exists", "exit_when_true", "exit_after_n_tasks",
              "exit_after_time"}

\* the closure each factory registers
CallbackOf(factory) ==
    CASE factory = "exit_if_file_exists" -> "check_file"
      [] factory = "exit_when_true"      -> "exit_when"
      [] factory = "exit_after_n_tasks"  -> "exit_after"
      [] factory = "exit_after_time"     -> "check_time"

\* a call of a factory appends one pair to the registry and does nothing else
OnlyRegisters ==
    (last'.op \in Factories) =>
        LET k == Len(hooks) + 1
        IN  /\ Len(hooks') = k
            /\ \A j \in HookIds : hooks'[j] = hooks[j]
            /\ hooks'[k].event = IF last'.op = "exit_if_file_exists"
                                 THEN PreExecute ELSE Executed
            /\ hooks'[k].cb.fn = CallbackOf(last'.op)
            /\ registrations'[k].factory = last'.op
            /\ delivered' = Append(delivered, 0)
            /\ "calls" \notin DOMAIN last'
            /\ exitStatus = <<>> /\ exitStatus' = <<>>
            /\ UNCHANGED <<now, files, pc, task, idx, ntasks>>

\* C17: a call of the file-marker, predicate, counter or deadline factory
\* adds exactly one (event, callback) pair to the registry, pre-execute for
\* the file marker and post-execute for the others, invokes no callback,
\* calls no f and never ends the process, even when the exit condition
\* already holds.
C17_FactoryOnlyRegisters == [][OnlyRegisters]_vars

C17_Witness ==
    /\ last.op = "exit_if_file_exists"
    /\ Alive
    /\ Len(hooks) = 2
    /\ IsCounter(1)
    /\ registrations[1].args[1] = 0
    /\ hooks[2].event = PreExecute
    /\ registrations[2].args[1] \in files
    /\ delivered = <<0, 0>>

\* exit_env_vars was just called with JUG_MAX_TASKS holding the string str
MaxTasksIs(str) ==
    /\ last.op = "exit_env_vars"
    /\ "JUG_MAX_TASKS" \in DOMAIN last.environ
    /\ last.environ["JUG_MAX_TASKS"] = str

\* "0" installs a counter watcher with threshold 0, first in the registry,
\* which ends the process on the first post-execute event; an absent key
\* installs no counter watcher, and then no counter watcher ends the process
ZeroIsSet ==
    /\ MaxTasksIs(<<"0">>) =>
           /\ Installed("exit_after") = {1}
           /\ hooks[1].event = Executed
           /\ hooks[1].cb.n = 0
           /\ hooks[1].cb.executed = 0
    /\ (last.op = "exit_env_vars" /\ "JUG_MAX_TASKS" \notin DOMAIN last.environ) =>
           Installed("exit_after") = {}
    /\ \A i \in Installed("exit_after") :
           hooks[i].cb.n = 0 =>
               /\ i = 1
               /\ registrations[i].args = <<0>>
               /\ delivered[i] <= 1
               /\ ExitedBy(i) <=> delivered[i] = 1
               /\ Alive => delivered[i] = 0
               /\ (Alive /\ pc # "post") => Fired(i) = 0
               /\ pc = "post" => Fired(i) = 1
    /\ Installed("exit_after") = {} =>
           \A i \in HookIds : ExitedBy(i) => hooks[i].cb.fn \in {"check_file", "check_time"}

\* after exit_env_vars the registry holds the same watchers for ever
SameWatchers ==
    last.op # "start" =>
        /\ Len(hooks') = Len(hooks)
        /\ \A i \in HookIds : hooks'[i].cb.fn = hooks[i].cb.fn
        /\ \A i \in Installed("exit_after") : hooks'[i].cb.n = hooks[i].cb.n

\* C18: JUG_MAX_TASKS = "0" is set and parsed: exit_env_vars installs a
\* counter watcher with threshold 0, which ends the process on the first
\* post-execute event; without JUG_MAX_TASKS no counter watcher is installed
\* and the process never ends on a task count.
C18_ZeroMaxTasksIsSet == []ZeroIsSet /\ [][SameWatchers]_vars

C18_Witness ==
    /\ ExitedBy(1)
    /\ Len(hooks) = 1
    /\ registrations[1].factory = "exit_after_n_tasks"
    /\ registrations[1].args = <<0>>
    /\ hooks[1].cb.n = 0
    /\ delivered[1] = 1
    /\ ntasks = 1
    /\ pc = "post"

\* the duration exit_after_time makes of the components of environ
TotalSeconds(environ) ==
    Component(environ, "JUG_MAX_SECONDS")
        + 60 * Component(environ, "JUG_MAX_MINUTES")
        + 3600 * Component(environ, "JUG_MAX_HOURS")

\* a deadline watcher is installed for non-zero components whatever their
\* sum; one whose deadline is not after its registration ends the process
\* the first time it is invoked, so no second post-execute event is fired
ComponentsDecide ==
    /\ (/\ last.op = "exit_env_vars"
        /\ AllIntegers(last.environ)
        /\ SomeTimeNonZero(last.environ)
        /\ TotalSeconds(last.environ) <= 0) =>
           \E i \in HookIds :
               /\ Installed("check_time") = {i}
               /\ hooks[i].event = Executed
               /\ hooks[i].cb.deadline = now + TotalSeconds(last.environ)
               /\ hooks[i].cb.deadline <= registrations[i].time
    /\ \A i \in Installed("check_time") :
           hooks[i].cb.deadline <= registrations[i].time =>
               /\ delivered[i] <= 1
               /\ ExitedBy(i) <=> delivered[i] = 1
               /\ Alive => delivered[i] = 0
               /\ (Alive /\ pc # "post") => Fired(i) = 0
               /\ pc = "post" => Fired(i) = 1
               /\ (Alive /\ pc = "post") => (idx # 0 /\ idx <= i)

\* C19: exit_env_vars looks at the parsed components, not at their sum:
\* non-zero components with a total duration of zero or less still install
\* one deadline watcher, whose deadline is not after the registration time
\* and which ends the process on the first post-execute event.
C19_NonPositiveTotalStillInstalls == ComponentsDecide

C19_Witness ==
    /\ ExitedBy(1)
    /\ Len(hooks) = 1
    /\ registrations[1].factory = "exit_after_time"
    /\ registrations[1].args = <<5, -300, 0>>
    /\ hooks[1].cb.deadline = registrations[1].time
    /\ now > registrations[1].time
    /\ delivered[1] = 1
    /\ ntasks = 1

====
